---------------------------- MODULE Spec2Model ----------------------------
(***************************************************************************)
(* A model of colly.py: the truncation-length solver, the exclusion        *)
(* matcher, word-token truncation, override resolution, the two directory  *)
(* passes (word scan and render) and the clipboard chunker.                *)
(*                                                                         *)
(* Text is a sequence of one-character strings.  A glob pattern is a       *)
(* sequence of one-character strings in which "*" and "?" are the          *)
(* wildcards; bracket classes do not occur in the inputs of the model.     *)
(* An optional value (Python's None or an int) is the empty tuple or a     *)
(* one-element tuple.                                                      *)
(***************************************************************************)
EXTENDS Integers, Sequences, FiniteSets, TLC

VARIABLES
    pc,             \* position of the program piece under check
    \* find_min_truncation_length
    words,          \* its argument words
    max_length,     \* its argument max_length
    solved,         \* its return value
    \* is_excluded
    xpath,          \* its argument path
    xglobs,         \* the exclusion globs before compilation
    xpatterns,      \* its argument exclusion_patterns (the globs compiled)
    xresult,        \* its return value
    \* truncate_content
    content,        \* its argument content
    width,          \* its argument X
    once,           \* truncate_content(content, X)
    twice,          \* truncate_content(once, X)
    \* copy_to_clipboard
    text,           \* its argument text
    max_clip_length,\* its argument max_clip_length
    platform,       \* sys.platform
    chunks,         \* the slices of text
    idx,            \* the loop's 1-based index
    sent,           \* what the clipboard command has received, in order
    failed,         \* a clipboard command has failed
    \* process_single_file
    fcall,          \* its arguments, and what open() yields for the file
    section,        \* its return value: the lines of the file's section
    \* main, collect_unique_words, process_files
    args,               \* the parsed command line
    patterns,           \* the candidate paths after glob expansion
    exclusion_patterns, \* the compiled exclusions
    overrides,          \* the parsed overrides
    unique_words,       \* the corpus word set
    truncation_length,  \* the global width
    output,             \* the lines of the document
    num_files_processed,
    fi,                 \* index of the candidate path the current pass is at
    walk,               \* directories os.walk has still to yield, next first
    top,                \* the directory the running os.walk started from
    reads,              \* history: the files opened and read, in order
    result              \* the document, once joined

solverVars == <<words, max_length, solved>>
exclVars   == <<xpath, xglobs, xpatterns, xresult>>
truncVars  == <<content, width, once, twice>>
clipVars   == <<text, max_clip_length, platform, chunks, idx, sent, failed>>
fileVars   == <<fcall, section>>
runVars    == <<args, patterns, exclusion_patterns, overrides, unique_words,
               truncation_length, output, num_files_processed, fi, walk, top,
               reads, result>>
vars == <<pc, solverVars, exclVars, truncVars, clipVars, fileVars, runVars>>

\* What each program piece leaves alone.
notSolver == <<exclVars, truncVars, clipVars, fileVars, runVars>>
notExcl == <<solverVars, truncVars, clipVars, fileVars, runVars>>
notTrunc == <<solverVars, exclVars, clipVars, fileVars, runVars>>
notClip == <<solverVars, exclVars, truncVars, fileVars, runVars>>
notFile == <<solverVars, exclVars, truncVars, clipVars, runVars>>
notRun == <<solverVars, exclVars, truncVars, clipVars, fileVars>>

(***************************************************************************)
(* Bounds of the model.                                                    *)
(***************************************************************************)
MaxWordLen == 3     \* longest generated word
MaxWords == 3       \* largest generated word set
MaxPathLen == 4     \* longest generated path of the exclusion matcher
MaxContentLen == 5  \* longest generated content of truncate_content
MaxWidth == 3       \* largest generated truncation width
MaxTextLen == 4     \* longest generated clipboard text
MaxClip == 3        \* largest generated max_clip_length
MaxOverrides == 2   \* longest generated override list
MaxFiles == 2       \* most patterns given with --files

\* The default of --max-length.
DefaultMaxLength == 80

(***************************************************************************)
(* Generic helpers.                                                        *)
(***************************************************************************)
None == <<>>
Some(x) == <<x>>

Min(a, b) == IF a < b THEN a ELSE b
Max(a, b) == IF a > b THEN a ELSE b

\* All sequences over S of length lo..hi.
SeqsOf(S, lo, hi) == UNION {[1..n -> S] : n \in lo..hi}

\* All subsets of U with at most k elements.
RECURSIVE SetsUpTo(_, _)
SetsUpTo(U, k) ==
    IF k = 0 THEN {{}}
    ELSE LET prev == SetsUpTo(U, k - 1)
         IN  prev \cup {S \cup {w} : S \in prev, w \in U}

\* Python's s[:n], negative n counting from the end.
SliceTo(s, n) ==
    IF n >= 0 THEN SubSeq(s, 1, Min(n, Len(s)))
    ELSE SubSeq(s, 1, Max(0, Len(s) + n))

\* Python's s[i:] for 0 <= i.
SliceFrom(s, i) == SubSeq(s, Min(i, Len(s)) + 1, Len(s))

(***************************************************************************)
(* truncate_string and find_min_truncation_length.                         *)
(***************************************************************************)
\* A slip in the slice: s[max_length:] drops the prefix instead of keeping it.
truncate_string_dropprefix(s, n) ==
    IF Len(s) > n THEN SliceFrom(s, n) ELSE s

truncate_string(s, n) ==
    IF Len(s) > n THEN SliceTo(s, n) ELSE s

RECURSIVE MaxLenOf(_)
MaxLenOf(W) ==
    IF W = {} THEN 0
    ELSE LET w == CHOOSE v \in W : TRUE
         IN  Max(Len(w), MaxLenOf(W \ {w}))

\* A slip in the loop bound: range(X, upper) leaves the last width out.
RECURSIVE ScanWidths_skiplast(_, _, _)
ScanWidths_skiplast(W, X, upper) ==
    IF X >= upper THEN None
    ELSE LET truncated_words == {truncate_string(w, X) : w \in W}
         IN  IF Cardinality(truncated_words) = Cardinality(W)
             THEN Some(X)
             ELSE ScanWidths_skiplast(W, X + 1, upper)

\* The for loop over range(X, upper + 1).
RECURSIVE ScanWidths(_, _, _)
ScanWidths(W, X, upper) ==
    IF X > upper THEN None
    ELSE LET truncated_words == {truncate_string(w, X) : w \in W}
         IN  IF Cardinality(truncated_words) = Cardinality(W)
             THEN Some(X)
             ELSE ScanWidths(W, X + 1, upper)

find_min_truncation_length(W, maxlen) ==
    IF W = {} THEN None
    ELSE ScanWidths(W, 1, Min(MaxLenOf(W), maxlen))

(***************************************************************************)
(* fnmatch.translate, the regular expressions it yields, and is_excluded.  *)
(* translate turns "*" into ".*", "?" into "." and any other character     *)
(* into itself escaped, and appends \Z (the end of the string); the (?s)   *)
(* flag lets "." match every character.                                    *)
(***************************************************************************)
ReStar == [t |-> "star", c |-> ""]      \* .*
ReAny == [t |-> "any", c |-> ""]        \* .
ReEnd == [t |-> "end", c |-> ""]        \* \Z
ReLit(ch) == [t |-> "lit", c |-> ch]    \* re.escape(ch)

TranslateChar(ch) ==
    IF ch = "*" THEN ReStar ELSE IF ch = "?" THEN ReAny ELSE ReLit(ch)

translate(pat) == [i \in 1..Len(pat) |-> TranslateChar(pat[i])] \o <<ReEnd>>

\* The regular expression re matches s from offset i (i characters consumed).
RECURSIVE MatchHere(_, _, _)
MatchHere(re, s, i) ==
    IF re = <<>> THEN TRUE
    ELSE LET h == Head(re)
             rest == Tail(re)
         IN  CASE h.t = "end" -> i = Len(s) /\ MatchHere(rest, s, i)
               [] h.t = "star" -> \E k \in i..Len(s) : MatchHere(rest, s, k)
               [] h.t = "any" -> i < Len(s) /\ MatchHere(rest, s, i + 1)
               [] OTHER -> i < Len(s) /\ s[i + 1] = h.c /\ MatchHere(rest, s, i + 1)

\* pattern.search(s): a match starting at any offset.
search(re, s) == \E i \in 0..Len(s) : MatchHere(re, s, i)

\* fnmatch.fnmatch(name, pat) on a POSIX system (normcase is the identity):
\* the translated pattern matched from offset 0.
fnmatch(name, pat) == MatchHere(translate(pat), name, 0)

compile_exclusion_patterns(exclusions) ==
    [i \in 1..Len(exclusions) |-> translate(exclusions[i])]

RECURSIVE is_excluded(_, _)
is_excluded(path, compiled) ==
    IF compiled = <<>> THEN FALSE
    ELSE IF search(Head(compiled), path) THEN TRUE
    ELSE is_excluded(path, Tail(compiled))

(***************************************************************************)
(* truncate_content: re.sub(r'\w+', truncate_match, content).  The word    *)
(* characters of the model are the lower-case letters, the digits and "_". *)
(***************************************************************************)
WordChars ==
    {"a", "b", "c", "d", "e", "f", "g", "h", "i", "j", "k", "l", "m", "n",
     "o", "p", "q", "r", "s", "t", "u", "v", "w", "x", "y", "z", "_",
     "0", "1", "2", "3", "4", "5", "6", "7", "8", "9"}

IsWordChar(ch) == ch \in WordChars

\* The length of the match of \w+ at the start of s (0: no match there).
RECURSIVE WordRunLen(_)
WordRunLen(s) ==
    IF s = <<>> \/ ~IsWordChar(Head(s)) THEN 0 ELSE 1 + WordRunLen(Tail(s))

\* A slip in the pattern: \w in place of \w+, every match one character long.
RECURSIVE truncate_content_onechar(_, _)
truncate_content_onechar(c, X) ==
    IF c = <<>> THEN <<>>
    ELSE IF ~IsWordChar(Head(c)) THEN <<Head(c)>> \o truncate_content_onechar(Tail(c), X)
    ELSE truncate_string(SubSeq(c, 1, 1), X) \o truncate_content_onechar(Tail(c), X)

RECURSIVE truncate_content(_, _)
truncate_content(c, X) ==
    IF c = <<>> THEN <<>>
    ELSE IF ~IsWordChar(Head(c)) THEN <<Head(c)>> \o truncate_content(Tail(c), X)
    ELSE LET n == WordRunLen(c)
         IN  truncate_string(SubSeq(c, 1, n), X) \o truncate_content(SliceFrom(c, n), X)

\* get_unique_words: set(re.findall(r'\w+', content)).
RECURSIVE get_unique_words(_)
get_unique_words(c) ==
    IF c = <<>> THEN {}
    ELSE IF ~IsWordChar(Head(c)) THEN get_unique_words(Tail(c))
    ELSE LET n == WordRunLen(c)
         IN  {SubSeq(c, 1, n)} \cup get_unique_words(SliceFrom(c, n))

(***************************************************************************)
(* copy_to_clipboard.  A message is a sequence whose elements are the      *)
(* fixed phrases of the marker line, decimal digits and the characters of  *)
(* the slice.                                                              *)
(***************************************************************************)
SupportedPlatforms == {"win32", "darwin", "linux"}

DigitOf(d) == CASE d = 0 -> "0" [] d = 1 -> "1" [] d = 2 -> "2" [] d = 3 -> "3"
                [] d = 4 -> "4" [] d = 5 -> "5" [] d = 6 -> "6" [] d = 7 -> "7"
                [] d = 8 -> "8" [] OTHER -> "9"

\* str(n) for n >= 0.
RECURSIVE Decimal(_)
Decimal(n) == IF n < 10 THEN <<DigitOf(n)>> ELSE Decimal(n \div 10) \o <<DigitOf(n % 10)>>

\* The number a sequence of decimal digits denotes.
DigitValue(ch) == CHOOSE d \in 0..9 : DigitOf(d) = ch
RECURSIVE NumberOf(_)
NumberOf(ds) ==
    IF ds = <<>> THEN 0 ELSE 10 * NumberOf(SubSeq(ds, 1, Len(ds) - 1)) + DigitValue(ds[Len(ds)])

SectionPhrase == "# Clipboard section "
OfPhrase == " of "
HoldPhrase == ". It is imperative not to respond until all sections have been provided."
FinalPhrase == ". All sections have been provided. You may proceed with the response."

\* The f-strings of the marker line.
Comment(i, num_chunks) ==
    <<SectionPhrase>> \o Decimal(i) \o <<OfPhrase>> \o Decimal(num_chunks)
        \o <<IF i < num_chunks THEN HoldPhrase ELSE FinalPhrase, "\n">>

\* A slip in the slice: text[i:i + max_clip_length - 1] loses a character.
RECURSIVE Chunks_short(_, _, _)
Chunks_short(t, i, n) ==
    IF i >= Len(t) THEN <<>>
    ELSE <<SubSeq(t, i + 1, Min(i + n - 1, Len(t)))>> \o Chunks_short(t, i + n, n)

\* [text[i:i + n] for i in range(i, len(text), n)], for n >= 1.
RECURSIVE Chunks(_, _, _)
Chunks(t, i, n) ==
    IF i >= Len(t) THEN <<>>
    ELSE <<SubSeq(t, i + 1, Min(i + n, Len(t)))>> \o Chunks(t, i + n, n)

(***************************************************************************)
(* Paths, override resolution and process_single_file.  A path is text     *)
(* with "/" between its components.                                        *)
(***************************************************************************)
Whitespace == {" ", "\n", "\t"}

\* The offset of the last ch in s (0: none).
RECURSIVE LastIndexOf(_, _)
LastIndexOf(s, ch) ==
    IF s = <<>> THEN 0
    ELSE IF s[Len(s)] = ch THEN Len(s)
    ELSE LastIndexOf(SubSeq(s, 1, Len(s) - 1), ch)

\* The offset of the first ch in s (0: none).
RECURSIVE FirstIndexOf(_, _)
FirstIndexOf(s, ch) ==
    IF s = <<>> THEN 0
    ELSE IF Head(s) = ch THEN 1
    ELSE LET r == FirstIndexOf(Tail(s), ch) IN IF r = 0 THEN 0 ELSE r + 1

\* os.path.basename: what follows the last "/".
basename(path) == SliceFrom(path, LastIndexOf(path, "/"))

\* os.path.dirname: what precedes the last "/" ("/" itself for a top-level name).
dirname(path) ==
    LET k == LastIndexOf(path, "/")
    IN  IF k = 1 THEN <<"/">> ELSE SubSeq(path, 1, k - 1)

\* os.path.join(a, b) for a relative b.
join(a, b) == IF a[Len(a)] = "/" THEN a \o b ELSE a \o <<"/">> \o b

UpperLetters == <<"A", "B", "C", "D", "E", "F", "G", "H", "I", "J", "K", "L", "M",
                  "N", "O", "P", "Q", "R", "S", "T", "U", "V", "W", "X", "Y", "Z">>
LowerLetters == <<"a", "b", "c", "d", "e", "f", "g", "h", "i", "j", "k", "l", "m",
                  "n", "o", "p", "q", "r", "s", "t", "u", "v", "w", "x", "y", "z">>

\* str.lower, character by character.
LowerChar(ch) ==
    IF \E k \in 1..26 : UpperLetters[k] = ch
    THEN LowerLetters[CHOOSE k \in 1..26 : UpperLetters[k] = ch]
    ELSE ch
Lower(s) == [i \in 1..Len(s) |-> LowerChar(s[i])]

\* The number of leading dots of a name.
RECURSIVE LeadingDots(_)
LeadingDots(name) ==
    IF name = <<>> \/ Head(name) # "." THEN 0 ELSE 1 + LeadingDots(Tail(name))

\* os.path.splitext(path)[1]: from the last dot of the base name on, unless
\* that dot is one of the name's leading dots.
splitext_ext(path) ==
    LET name == basename(path)
        k == LastIndexOf(name, ".")
    IN  IF k > LeadingDots(name) THEN SliceFrom(name, k - 1) ELSE <<>>

DotPy == <<".", "p", "y">>

\* language_identifier.get(extension, "plaintext"), for the extensions of the model.
LanguageOf(extension) ==
    CASE extension = DotPy -> "python"
      [] extension = <<".", "m", "d">> -> "markdown"
      [] extension = <<".", "j", "s">> -> "javascript"
      [] OTHER -> "plaintext"

\* str.lstrip, str.rstrip, str.strip.
RECURSIVE lstrip(_)
lstrip(s) == IF s # <<>> /\ Head(s) \in Whitespace THEN lstrip(Tail(s)) ELSE s
RECURSIVE rstrip(_)
rstrip(s) ==
    IF s # <<>> /\ s[Len(s)] \in Whitespace THEN rstrip(SubSeq(s, 1, Len(s) - 1)) ELSE s
strip(s) == lstrip(rstrip(s))

\* str.splitlines for text whose only line break is "\n".
RECURSIVE splitlines(_)
splitlines(s) ==
    IF s = <<>> THEN <<>>
    ELSE LET k == FirstIndexOf(s, "\n")
         IN  IF k = 0 THEN <<s>>
             ELSE <<SubSeq(s, 1, k - 1)>> \o splitlines(SliceFrom(s, k))

\* '\n'.join(lines).
RECURSIVE JoinLines(_)
JoinLines(lines) ==
    IF lines = <<>> THEN <<>>
    ELSE IF Len(lines) = 1 THEN lines[1]
    ELSE lines[1] \o <<"\n">> \o JoinLines(Tail(lines))

\* re.sub(r'#.*$', '', content, flags=re.MULTILINE): every line loses what
\* follows its first "#", the "#" included.
RECURSIVE StripComments(_)
StripComments(s) ==
    IF s = <<>> THEN <<>>
    ELSE LET nl == FirstIndexOf(s, "\n")
             line == IF nl = 0 THEN s ELSE SubSeq(s, 1, nl - 1)
             h == FirstIndexOf(line, "#")
             kept == IF h = 0 THEN line ELSE SubSeq(line, 1, h - 1)
         IN  IF nl = 0 THEN kept
             ELSE kept \o <<"\n">> \o StripComments(SliceFrom(s, nl))

NonBlankStripped(lines) ==
    LET stripped == [i \in 1..Len(lines) |-> strip(lines[i])]
        NonEmpty(l) == l # <<>>
    IN  SelectSeq(stripped, NonEmpty)

minify_python_code(c) == JoinLines(NonBlankStripped(splitlines(StripComments(c))))

\* A slip in the argument: the whole path is matched, not its base name.
RECURSIVE match_override_fullpath(_, _)
match_override_fullpath(file_path, ovr) ==
    IF ovr = <<>> THEN None
    ELSE IF fnmatch(file_path, Head(ovr)[1]) THEN Some(Head(ovr)[2])
    ELSE match_override_fullpath(file_path, Tail(ovr))

\* An override is the pair <<pattern, length>>.
RECURSIVE match_override(_, _)
match_override(file_path, ovr) ==
    IF ovr = <<>> THEN None
    ELSE IF fnmatch(basename(file_path), Head(ovr)[1]) THEN Some(Head(ovr)[2])
    ELSE match_override(file_path, Tail(ovr))

\* The working directory of the run, and os.path.relpath from it.
Cwd == <<"/">>
relpath(path) == SliceFrom(path, 1)

\* The truncation step without its guard on truncate (line 339 dropped).
Truncated_unguarded(c, file_path, truncate, global_length, ovr) ==
    LET override_max_length == match_override(file_path, ovr)
        trunc_length == IF override_max_length # None THEN override_max_length
                        ELSE global_length
    IN  IF trunc_length # None THEN truncate_content(c, trunc_length[1]) ELSE c

\* Lines 339-343: the content after the truncation step.
Truncated(c, file_path, truncate, global_length, ovr) ==
    IF truncate
    THEN LET override_max_length == match_override(file_path, ovr)
             trunc_length == IF override_max_length # None THEN override_max_length
                             ELSE global_length
         IN  IF trunc_length # None THEN truncate_content(c, trunc_length[1]) ELSE c
    ELSE c

\* The three backquotes that open and close a fenced block.
Fence == "<fence>"

\* raw is what reading the file yields: None when open() or read() raises.
process_single_file(file_path, raw, minify_python, truncate, global_length, ovr) ==
    LET extension == Lower(splitext_ext(file_path))
        language == LanguageOf(extension)
    IN  IF raw = None THEN <<>>
        ELSE IF strip(raw[1]) = <<>> THEN <<>>
        ELSE LET minified == IF minify_python /\ extension = DotPy
                             THEN minify_python_code(raw[1]) ELSE raw[1]
                 c == Truncated(minified, file_path, truncate, global_length, ovr)
             IN  << <<"## ">> \o relpath(file_path),
                    <<Fence, language>>,
                    rstrip(c),
                    <<Fence>>,
                    <<>> >>

\* Names and texts the inputs of the model are made of.
Txt(a, b) == a \o <<" ">> \o b
Hello == <<"h", "e", "l", "l", "o">>
World == <<"w", "o", "r", "l", "d">>
HelloWorld == Txt(Hello, World)
AppPy == <<"a", "p", "p", ".", "p", "y">>
NoteTxt == <<"n", "o", "t", "e", ".", "t", "x", "t">>
StarPy == <<"*", ".", "p", "y">>
Build == <<"b", "u", "i", "l", "d">>

(***************************************************************************)
(* The file tree of the run.  A node is a directory with its entries in    *)
(* listing order, a file with its decoded content (unreadable: open()      *)
(* raises), or a symbolic link to a directory.                             *)
(*                                                                         *)
(*   /p/app.py       hello world                                           *)
(*   /p/note.txt     world note                                            *)
(*   /p/build/file.py        help hello      (build: a default exclusion)  *)
(*   /p/build/sub/deep.txt   deep                                          *)
(*   /p/docs/readme.md       note docs                                     *)
(*   /p/link -> /p/build                                                   *)
(*   /p/blank.txt    (white space only)                                    *)
(*   /p/locked.txt   (unreadable)                                          *)
(***************************************************************************)
\* The names, the paths and the contents of the tree.
NP == <<"p">>
NApp == AppPy
NNote == NoteTxt
NBuild == Build
NDocs == <<"d", "o", "c", "s">>
NLink == <<"l", "i", "n", "k">>
NBlank == <<"b", "l", "a", "n", "k", ".", "t", "x", "t">>
NLocked == <<"l", "o", "c", "k", "e", "d", ".", "t", "x", "t">>
NFile == <<"f", "i", "l", "e", ".", "p", "y">>
NSub == <<"s", "u", "b">>
NDeep == <<"d", "e", "e", "p", ".", "t", "x", "t">>
NReadme == <<"r", "e", "a", "d", "m", "e", ".", "m", "d">>
PDir == <<"/", "p">>
PApp == PDir \o <<"/">> \o NApp
PNote == PDir \o <<"/">> \o NNote
PBuild == PDir \o <<"/">> \o NBuild
PBuildFile == PBuild \o <<"/">> \o NFile
PBuildSub == PBuild \o <<"/">> \o NSub
PBuildSubDeep == PBuildSub \o <<"/">> \o NDeep
PDocs == PDir \o <<"/">> \o NDocs
PDocsReadme == PDocs \o <<"/">> \o NReadme
PLink == PDir \o <<"/">> \o NLink
PBlank == PDir \o <<"/">> \o NBlank
PLocked == PDir \o <<"/">> \o NLocked
CApp == HelloWorld
CNote == <<"w", "o", "r", "l", "d", " ", "n", "o", "t", "e", "\n">>
CFile == <<"h", "e", "l", "p", " ", "h", "e", "l", "l", "o", "\n">>
CDeep == <<"d", "e", "e", "p">>
CReadme == <<"n", "o", "t", "e", " ", "d", "o", "c", "s">>
CBlank == <<" ", "\n">>
CLocked == <<"s", "e", "c", "r", "e", "t">>

DirNode(entries) ==
    [kind |-> "dir", entries |-> entries, content |-> <<>>, readable |-> TRUE, target |-> <<>>]
FileNode(c, readable) ==
    [kind |-> "file", entries |-> <<>>, content |-> c, readable |-> readable, target |-> <<>>]
LinkNode(target) ==
    [kind |-> "link", entries |-> <<>>, content |-> <<>>, readable |-> TRUE, target |-> target]

Tree ==
    (<<"/">> :> DirNode(<<NP>>))
    @@ (PDir :> DirNode(<<NApp, NNote, NBuild, NDocs, NLink, NBlank, NLocked>>))
    @@ (PApp :> FileNode(CApp, TRUE))
    @@ (PNote :> FileNode(CNote, TRUE))
    @@ (PBuild :> DirNode(<<NFile, NSub>>))
    @@ (PBuildFile :> FileNode(CFile, TRUE))
    @@ (PBuildSub :> DirNode(<<NDeep>>))
    @@ (PBuildSubDeep :> FileNode(CDeep, TRUE))
    @@ (PDocs :> DirNode(<<NReadme>>))
    @@ (PDocsReadme :> FileNode(CReadme, TRUE))
    @@ (PLink :> LinkNode(PBuild))
    @@ (PBlank :> FileNode(CBlank, TRUE))
    @@ (PLocked :> FileNode(CLocked, FALSE))

\* No such file or directory.
Missing == <<>>

\* s split at every ch.
RECURSIVE SplitOn(_, _)
SplitOn(s, ch) ==
    LET k == FirstIndexOf(s, ch)
    IN  IF k = 0 THEN <<s>> ELSE <<SubSeq(s, 1, k - 1)>> \o SplitOn(SliceFrom(s, k), ch)

\* The node a path leads to from the directory cur, symbolic links followed.
RECURSIVE ResolveFrom(_, _)
ResolveFrom(cur, comps) ==
    IF comps = <<>> THEN cur
    ELSE IF cur \notin DOMAIN Tree THEN Missing
    ELSE IF Tree[cur].kind # "dir" \/ join(cur, Head(comps)) \notin DOMAIN Tree THEN Missing
    ELSE LET cand == join(cur, Head(comps))
         IN  ResolveFrom(IF Tree[cand].kind = "link" THEN Tree[cand].target ELSE cand,
                         Tail(comps))

realpath(path) ==
    IF path = <<"/">> THEN path ELSE ResolveFrom(<<"/">>, SplitOn(SliceFrom(path, 1), "/"))

\* os.path.abspath, for paths without "." and ".." components.
abspath(path) == IF Head(path) = "/" THEN path ELSE join(Cwd, path)

exists(path) == realpath(path) # Missing
isfile(path) == exists(path) /\ Tree[realpath(path)].kind = "file"
isdir(path) == exists(path) /\ Tree[realpath(path)].kind = "dir"
islink(path) ==
    LET d == realpath(dirname(path))
    IN  /\ d # Missing
        /\ join(d, basename(path)) \in DOMAIN Tree
        /\ Tree[join(d, basename(path))].kind = "link"

\* open(path).read(): None when it raises.
ReadFile(path) ==
    LET n == Tree[realpath(path)] IN IF n.readable THEN Some(n.content) ELSE None

listdir(path) == Tree[realpath(path)].entries

RECURSIVE Concat(_)
Concat(ss) == IF ss = <<>> THEN <<>> ELSE Head(ss) \o Concat(Tail(ss))

(***************************************************************************)
(* glob.glob(pattern, recursive=True) for a pattern whose wildcards, if    *)
(* any, are in its last component and which holds no "**".                 *)
(***************************************************************************)
has_magic(s) == \E i \in 1..Len(s) : s[i] \in {"*", "?", "["}

glob_glob(pattern) ==
    IF ~has_magic(pattern)
    THEN IF exists(abspath(pattern)) THEN <<pattern>> ELSE <<>>
    ELSE LET k == LastIndexOf(pattern, "/")
             dir == IF k = 0 THEN Cwd ELSE abspath(SubSeq(pattern, 1, k - 1))
             base == SliceFrom(pattern, k)
             Shown(name) == fnmatch(name, base) /\ (Head(name) # "." \/ Head(base) = ".")
             names == IF isdir(dir) THEN SelectSeq(listdir(dir), Shown) ELSE <<>>
         IN  [i \in 1..Len(names) |-> SubSeq(pattern, 1, k) \o names[i]]

\* Lines 397-401.
ExpandPatterns(files) ==
    Concat([i \in 1..Len(files) |->
               IF glob_glob(files[i]) # <<>> THEN glob_glob(files[i]) ELSE <<files[i]>>])

(***************************************************************************)
(* parse_override_max_length.                                              *)
(***************************************************************************)
Digits == {"0", "1", "2", "3", "4", "5", "6", "7", "8", "9"}

\* int(s) for s without white space and underscores: None when it raises.
ParseInt(s) ==
    LET neg == s # <<>> /\ Head(s) = "-"
        ds == IF s # <<>> /\ Head(s) \in {"-", "+"} THEN Tail(s) ELSE s
    IN  IF ds = <<>> \/ \E i \in 1..Len(ds) : ds[i] \notin Digits THEN None
        ELSE Some(IF neg THEN 0 - NumberOf(ds) ELSE NumberOf(ds))

RECURSIVE parse_override_max_length(_)
parse_override_max_length(raw) ==
    IF raw = <<>> THEN <<>>
    ELSE LET override == Head(raw)
             k == FirstIndexOf(override, ":")
             length == IF k = 0 THEN None ELSE ParseInt(SliceFrom(override, k))
             parsed == IF length = None THEN <<>>
                       ELSE IF length[1] <= 0 THEN <<>>
                       ELSE << <<SubSeq(override, 1, k - 1), length[1]>> >>
         IN  parsed \o parse_override_max_length(Tail(raw))

(***************************************************************************)
(* default_exclusions: the entries that can match a path of the tree       *)
(* ("build") and three that cannot; the others match no path of the model. *)
(***************************************************************************)
NodeModules == <<"n", "o", "d", "e", "_", "m", "o", "d", "u", "l", "e", "s">>
StarZip == <<"*", ".", "z", "i", "p">>
DotGit == <<".", "g", "i", "t">>
DefaultExclusions == <<NodeModules, StarZip, DotGit, Build>>

(***************************************************************************)
(* os.walk and the two passes' loop bodies.                                *)
(***************************************************************************)
\* The entries of root that are directories (links to directories included),
\* and the others, as os.walk yields them.
WalkDirs(root) ==
    LET IsDirEntry(name) == isdir(join(root, name)) IN SelectSeq(listdir(root), IsDirEntry)
WalkFiles(root) ==
    LET IsFileEntry(name) == ~isdir(join(root, name)) IN SelectSeq(listdir(root), IsFileEntry)

\* A slip: the directory list is left as os.walk yielded it.
PrunedDirs_unpruned(root, dirs, excl) == dirs

\* dirs[:] = [d for d in dirs if not is_excluded(os.path.join(root, d), ...)]
PrunedDirs(root, dirs, excl) ==
    LET Kept(d) == ~is_excluded(join(root, d), excl) IN SelectSeq(dirs, Kept)

\* The directories os.walk goes on to: links only when followlinks is set.
Descend(root, dirs, followlinks) ==
    LET Entered(d) == followlinks \/ ~islink(join(root, d))
        into == SelectSeq(dirs, Entered)
    IN  [i \in 1..Len(into) |-> join(root, into[i])]

\* The files of root that the loop body opens: those not excluded.
IncludedFiles(root, excl) ==
    LET names == WalkFiles(root)
        paths == [i \in 1..Len(names) |-> join(root, names[i])]
        Included(f) == ~is_excluded(f, excl)
    IN  SelectSeq(paths, Included)

ReadRecord(pass, path, from) == [pass |-> pass, path |-> path, top |-> from]

\* The history entries of a loop over paths: those whose read succeeds.
ReadsOf(pass, paths, from) ==
    LET Readable(f) == ReadFile(f) # None
        ok == SelectSeq(paths, Readable)
    IN  [i \in 1..Len(ok) |-> ReadRecord(pass, ok[i], from)]

WordsOfFile(path) ==
    IF ReadFile(path) = None THEN {} ELSE get_unique_words(ReadFile(path)[1])

(***************************************************************************)
(* build_verbose_output.  sys.argv is outside the model: its echo is one   *)
(* opaque element.  The encoding is utf-8 throughout.                      *)
(***************************************************************************)
ArgvEcho == <<"sys.argv[1:]">>

build_verbose_output(truncate, uw, maxlen, ovr, follow_symlinks, minify_python, excl) ==
    LET tl == IF truncate THEN find_min_truncation_length(uw, maxlen) ELSE None
    IN  << <<"# Introduction">>,
           <<"This output was created by colly.py. It gathers and processes files with optional transformations.">>,
           <<>> >>
        \o (IF truncate
            THEN << <<"# Truncation Details">> >>
                 \o (IF tl # None
                     THEN << <<"- A minimal truncation length of ">> \o Decimal(tl[1])
                                \o <<" was determined to preserve word uniqueness.">>,
                             <<"- Words longer than ">> \o Decimal(tl[1])
                                \o <<" characters may have been truncated in files without overrides.">> >>
                     ELSE << <<"- No suitable minimal truncation length was found within the allowed range -- meaning the truncation length was not set to a value that would preserve word uniqueness in the files.">>,
                             <<"- Global truncation was not applied to files without overrides.">> >>)
                 \o (IF ovr # <<>>
                     THEN << <<"- Truncation overrides were applied to specific file patterns.">> >>
                     ELSE <<>>)
                 \o (IF maxlen # DefaultMaxLength
                     THEN << <<"- The maximum allowed word length for truncation was set to ">>
                                \o Decimal(maxlen) \o <<".">> >>
                     ELSE <<>>)
                 \o << <<>> >>
            ELSE << <<>> >>)
        \o (IF minify_python
            THEN << <<"# Python Minification">>,
                    <<"- Python files were minified by removing comments and extra whitespace.">>,
                    <<>> >>
            ELSE <<>>)
        \o (IF follow_symlinks
            THEN << <<"# Symlink Following">>,
                    <<"- Symbolic links were followed during file traversal.">>,
                    <<>> >>
            ELSE <<>>)
        \o (IF excl # <<>>
            THEN << <<"# Exclusions">>,
                    <<"- Certain files or directories were excluded based on patterns.">>,
                    <<>> >>
            ELSE <<>>)
        \o << <<"# Script Run Parameters">>, <<Fence>>, ArgvEcho, <<Fence>>, <<>> >>

(***************************************************************************)
(* Inputs of the solver: word sets over a two-letter alphabet, and the     *)
(* corpus {cat, caterpillar, dog, dogma} at the default max_length.        *)
(***************************************************************************)
Cat == <<"c", "a", "t">>
Caterpillar == <<"c", "a", "t", "e", "r", "p", "i", "l", "l", "a", "r">>
Dog == <<"d", "o", "g">>
Dogma == <<"d", "o", "g", "m", "a">>
PetWords == {Cat, Caterpillar, Dog, Dogma}

WordUniverse == SeqsOf({"a", "b"}, 1, MaxWordLen)
WordSets == SetsUpTo(WordUniverse, MaxWords) \cup {PetWords}
MaxLengths == 0..(MaxWordLen + 1) \cup {DefaultMaxLength}

IdleSolver == words = {} /\ max_length = 0 /\ solved = None
IdleExcl == xpath = <<>> /\ xglobs = <<>> /\ xpatterns = <<>> /\ xresult = FALSE
IdleTrunc == content = <<>> /\ width = 0 /\ once = <<>> /\ twice = <<>>
IdleClip ==
    /\ text = <<>> /\ max_clip_length = 0 /\ platform = "" /\ chunks = <<>>
    /\ idx = 0 /\ sent = <<>> /\ failed = FALSE
IdleFile == fcall = <<>> /\ section = <<>>
IdleRun ==
    /\ args = <<>> /\ patterns = <<>> /\ exclusion_patterns = <<>> /\ overrides = <<>>
    /\ unique_words = {} /\ truncation_length = None /\ output = <<>>
    /\ num_files_processed = 0 /\ fi = 0 /\ walk = <<>> /\ top = <<>>
    /\ reads = <<>> /\ result = <<>>

SolverInit ==
    /\ pc = "solve"
    /\ words \in WordSets
    /\ max_length \in MaxLengths
    /\ solved = None
    /\ IdleExcl /\ IdleTrunc /\ IdleClip /\ IdleFile /\ IdleRun

\* The call find_min_truncation_length(words, max_length).
Solve ==
    /\ pc = "solve"
    /\ solved' = find_min_truncation_length(words, max_length)
    /\ pc' = "solved"
    /\ UNCHANGED <<words, max_length, notSolver>>

SolverNext == Solve

SolverSpec == SolverInit /\ [][SolverNext]_vars

(***************************************************************************)
(* The exclusion matcher on its own: short paths over "/", "b", "x", and   *)
(* the paths /project/build/file.py, /a/build/b/c.txt, /project/build.     *)
(***************************************************************************)
ProjectBuildFilePy ==
    <<"/", "p", "r", "o", "j", "e", "c", "t", "/">> \o Build
        \o <<"/", "f", "i", "l", "e", ".", "p", "y">>
ABuildBCTxt ==
    <<"/", "a", "/">> \o Build \o <<"/", "b", "/", "c", ".", "t", "x", "t">>
ProjectBuild == <<"/", "p", "r", "o", "j", "e", "c", "t", "/">> \o Build

ExclPaths ==
    SeqsOf({"/", "b", "x"}, 1, MaxPathLen)
        \cup {ProjectBuildFilePy, ABuildBCTxt, ProjectBuild}
ExclGlobs == {<<"b">>, <<"?", "b">>, <<"*", "x">>, Build}
ExclGlobLists == SeqsOf(ExclGlobs, 0, 2)

ExclInit ==
    /\ pc = "compile"
    /\ xpath \in ExclPaths
    /\ xglobs \in ExclGlobLists
    /\ xpatterns = <<>>
    /\ xresult = FALSE
    /\ IdleSolver /\ IdleTrunc /\ IdleClip /\ IdleFile /\ IdleRun

\* exclusion_patterns = compile_exclusion_patterns(combined_exclusions)
CompileExclusions ==
    /\ pc = "compile"
    /\ xpatterns' = compile_exclusion_patterns(xglobs)
    /\ pc' = "check"
    /\ UNCHANGED <<xpath, xglobs, xresult, notExcl>>

\* The call is_excluded(xpath, xpatterns).
CheckExcluded ==
    /\ pc = "check"
    /\ xresult' = is_excluded(xpath, xpatterns)
    /\ pc' = "checked"
    /\ UNCHANGED <<xpath, xglobs, xpatterns, notExcl>>

ExclNext == CompileExclusions \/ CheckExcluded

ExclSpec == ExclInit /\ [][ExclNext]_vars

(***************************************************************************)
(* truncate_content on its own: contents over two letters, a blank and a   *)
(* dash, truncated once and then again at the same width.                  *)
(***************************************************************************)
Contents == SeqsOf({"a", "b", " ", "-"}, 0, MaxContentLen)

TruncInit ==
    /\ pc = "truncate"
    /\ content \in Contents
    /\ width \in 1..MaxWidth
    /\ once = <<>>
    /\ twice = <<>>
    /\ IdleSolver /\ IdleExcl /\ IdleClip /\ IdleFile /\ IdleRun

TruncateOnce ==
    /\ pc = "truncate"
    /\ once' = truncate_content(content, width)
    /\ pc' = "again"
    /\ UNCHANGED <<content, width, twice, notTrunc>>

TruncateAgain ==
    /\ pc = "again"
    /\ twice' = truncate_content(once, width)
    /\ pc' = "truncated"
    /\ UNCHANGED <<content, width, once, notTrunc>>

TruncNext == TruncateOnce \/ TruncateAgain

TruncSpec == TruncInit /\ [][TruncNext]_vars

(***************************************************************************)
(* copy_to_clipboard on its own: texts over a letter and a newline, and a  *)
(* 25-character document at max_clip_length 10.                            *)
(***************************************************************************)
Doc25 == [i \in 1..25 |-> IF i % 7 = 0 THEN "\n" ELSE IF i % 2 = 0 THEN "a" ELSE "b"]

ClipInit ==
    /\ pc = "clip"
    /\ \/ text \in SeqsOf({"a", "\n"}, 0, MaxTextLen) /\ max_clip_length \in 1..MaxClip
       \/ text = Doc25 /\ max_clip_length = 10
    /\ platform \in {"linux", "sunos"}
    /\ chunks = <<>>
    /\ idx = 0
    /\ sent = <<>>
    /\ failed = FALSE
    /\ IdleSolver /\ IdleExcl /\ IdleTrunc /\ IdleFile /\ IdleRun

\* No clipboard command for this platform: a warning, and the return.
ClipUnsupported ==
    /\ pc = "clip"
    /\ platform \notin SupportedPlatforms
    /\ pc' = "clipped"
    /\ UNCHANGED <<clipVars, notClip>>

\* chunks = [...]; num_chunks = len(chunks); the loop starts at idx 1.
ClipSplit ==
    /\ pc = "clip"
    /\ platform \in SupportedPlatforms
    /\ chunks' = Chunks(text, 0, max_clip_length)
    /\ idx' = 1
    /\ pc' = "send"
    /\ UNCHANGED <<text, max_clip_length, platform, sent, failed, notClip>>

\* One iteration of the loop, subprocess.run succeeding.
SendChunk ==
    /\ pc = "send"
    /\ idx <= Len(chunks)
    /\ sent' = Append(sent, Comment(idx, Len(chunks)) \o chunks[idx])
    /\ idx' = idx + 1
    /\ UNCHANGED <<pc, text, max_clip_length, platform, chunks, failed, notClip>>

\* One iteration of the loop, subprocess.run raising CalledProcessError: break.
SendChunkFails ==
    /\ pc = "send"
    /\ idx <= Len(chunks)
    /\ failed' = TRUE
    /\ pc' = "clipped"
    /\ UNCHANGED <<text, max_clip_length, platform, chunks, idx, sent, notClip>>

\* The loop is exhausted.
ClipDone ==
    /\ pc = "send"
    /\ idx > Len(chunks)
    /\ pc' = "clipped"
    /\ UNCHANGED <<clipVars, notClip>>

ClipNext == ClipUnsupported \/ ClipSplit \/ SendChunk \/ SendChunkFails \/ ClipDone

ClipSpec == ClipInit /\ [][ClipNext]_vars

(***************************************************************************)
(* process_single_file on its own.                                         *)
(***************************************************************************)


FilePaths ==
    { <<"/", "p", "/">> \o AppPy,
      <<"/", "p", "/">> \o NoteTxt,
      <<"/", "a", ".", "p", "y", "/">> \o NoteTxt,
      <<"/", "p", "/", "x", ".", "P", "Y">> }
FileContents ==
    { HelloWorld,
      <<"a", "b", "c", "d", " ", "#", " ", "x", "y", "z", "\n", " ", " ", "a", "b", "\n">>,
      <<" ", "\n">>,
      <<"a", "b", "c", "d", "e", "f", "-", "a", "b", "c">> }
OverridePairs ==
    { <<StarPy, 3>>, <<<<"a", "p", "p", ".", "*">>, 2>>, <<<<"*">>, 1>>, <<NoteTxt, 4>> }
OverrideLists == SeqsOf(OverridePairs, 0, MaxOverrides)
GlobalWidths == {None} \cup {Some(n) : n \in 1..MaxWidth \cup {5}}

FileInit ==
    /\ pc = "file"
    /\ fcall \in [file_path : FilePaths,
                  raw : {None} \cup {Some(c) : c \in FileContents},
                  minify_python : BOOLEAN,
                  truncate : BOOLEAN,
                  truncation_length : GlobalWidths,
                  overrides : OverrideLists]
    /\ section = <<>>
    /\ IdleSolver /\ IdleExcl /\ IdleTrunc /\ IdleClip /\ IdleRun

\* The call process_single_file(...).
ProcessSingleFile ==
    /\ pc = "file"
    /\ section' = process_single_file(fcall.file_path, fcall.raw, fcall.minify_python,
                                      fcall.truncate, fcall.truncation_length,
                                      fcall.overrides)
    /\ pc' = "processed"
    /\ UNCHANGED <<fcall, notFile>>

FileNext == ProcessSingleFile

FileSpec == FileInit /\ [][FileNext]_vars

(***************************************************************************)
(* A run of main: the patterns are expanded, the exclusions compiled and   *)
(* the overrides parsed; with --truncate the word-scan pass walks the      *)
(* candidates; the render pass walks them again; the lines are joined.     *)
(* The branch "no patterns" of main cannot be taken, --files requiring at  *)
(* least one pattern and every pattern yielding at least itself.           *)
(***************************************************************************)
FileArgs == {NP, NP \o <<"/">> \o NApp, NP \o <<"/", "*">>, NP \o <<"/">> \o NBuild \o <<"/">> \o NFile, <<"n", "o", "p", "e">>}
OverrideArgs == {<<>>, <<NoteTxt, <<"*", ".", "t", "x", "t", ":", "0">>, <<"*", ".", "p", "y", ":", "3">>>>}

RunInit ==
    /\ pc = "expand"
    /\ args \in [files : SeqsOf(FileArgs, 1, MaxFiles),
                 exclude : {<<>>},
                 follow_symlinks : BOOLEAN,
                 minify_python : BOOLEAN,
                 truncate : BOOLEAN,
                 max_length : {DefaultMaxLength},
                 override_max_length : OverrideArgs,
                 verbose : BOOLEAN]
    /\ patterns = <<>> /\ exclusion_patterns = <<>> /\ overrides = <<>>
    /\ unique_words = {} /\ truncation_length = None /\ output = <<>>
    /\ num_files_processed = 0 /\ fi = 0 /\ walk = <<>> /\ top = <<>>
    /\ reads = <<>> /\ result = <<>>
    /\ IdleSolver /\ IdleExcl /\ IdleTrunc /\ IdleClip /\ IdleFile

\* main, lines 397-401.
Expand ==
    /\ pc = "expand"
    /\ patterns' = ExpandPatterns(args.files)
    /\ pc' = "configure"
    /\ UNCHANGED <<args, exclusion_patterns, overrides, unique_words, truncation_length,
                   output, num_files_processed, fi, walk, top, reads, result, notRun>>

\* main, lines 407-409.
Configure ==
    /\ pc = "configure"
    /\ exclusion_patterns' = compile_exclusion_patterns(DefaultExclusions \o args.exclude)
    /\ overrides' = parse_override_max_length(args.override_max_length)
    /\ fi' = 1
    /\ pc' = "scan"
    /\ UNCHANGED <<args, patterns, unique_words, truncation_length, output,
                   num_files_processed, walk, top, reads, result, notRun>>

\* main, line 411, without --truncate: unique_words = set().
SkipScan ==
    /\ pc = "scan" /\ ~args.truncate
    /\ unique_words' = {}
    /\ pc' = "begin"
    /\ UNCHANGED <<args, patterns, exclusion_patterns, overrides, truncation_length, output,
                   num_files_processed, fi, walk, top, reads, result, notRun>>

Scanning == pc = "scan" /\ args.truncate /\ walk = <<>> /\ fi <= Len(patterns)

\* collect_unique_words, lines 100-102: a candidate that does not exist or is excluded.
ScanSkipEntry ==
    /\ Scanning
    /\ LET full_path == abspath(patterns[fi])
       IN  ~exists(full_path) \/ is_excluded(full_path, exclusion_patterns)
    /\ fi' = fi + 1
    /\ UNCHANGED <<pc, args, patterns, exclusion_patterns, overrides, unique_words,
                   truncation_length, output, num_files_processed, walk, top, reads,
                   result, notRun>>

\* collect_unique_words, lines 103-110: a candidate that is a file.
ScanFileEntry ==
    /\ Scanning
    /\ LET full_path == abspath(patterns[fi])
       IN  /\ exists(full_path) /\ ~is_excluded(full_path, exclusion_patterns)
           /\ isfile(full_path)
           /\ unique_words' = unique_words \cup WordsOfFile(full_path)
           /\ reads' = reads \o ReadsOf("scan", <<full_path>>, <<>>)
    /\ fi' = fi + 1
    /\ UNCHANGED <<pc, args, patterns, exclusion_patterns, overrides, truncation_length,
                   output, num_files_processed, walk, top, result, notRun>>

\* collect_unique_words, lines 111-112: a candidate that is a directory; os.walk starts.
ScanDirEntry ==
    /\ Scanning
    /\ LET full_path == abspath(patterns[fi])
       IN  /\ exists(full_path) /\ ~is_excluded(full_path, exclusion_patterns)
           /\ isdir(full_path)
           /\ walk' = <<full_path>>
           /\ top' = full_path
    /\ UNCHANGED <<pc, args, patterns, exclusion_patterns, overrides, unique_words,
                   truncation_length, output, num_files_processed, fi, reads, result,
                   notRun>>

\* collect_unique_words, lines 112-123: one directory yielded by os.walk (which
\* is called without followlinks), its subdirectories pruned, its files read.
ScanWalk ==
    /\ pc = "scan" /\ args.truncate /\ walk # <<>>
    /\ LET root == Head(walk)
           dirs == PrunedDirs(root, WalkDirs(root), exclusion_patterns)
           files == IncludedFiles(root, exclusion_patterns)
           rest == Descend(root, dirs, FALSE) \o Tail(walk)
       IN  /\ unique_words' = unique_words \cup UNION {WordsOfFile(files[i]) : i \in 1..Len(files)}
           /\ reads' = reads \o ReadsOf("scan", files, top)
           /\ walk' = rest
           /\ fi' = IF rest = <<>> THEN fi + 1 ELSE fi
           /\ top' = IF rest = <<>> THEN <<>> ELSE top
    /\ UNCHANGED <<pc, args, patterns, exclusion_patterns, overrides, truncation_length,
                   output, num_files_processed, result, notRun>>

\* collect_unique_words, line 124: return words.
ScanDone ==
    /\ pc = "scan" /\ args.truncate /\ walk = <<>> /\ fi > Len(patterns)
    /\ pc' = "begin"
    /\ UNCHANGED <<args, patterns, exclusion_patterns, overrides, unique_words,
                   truncation_length, output, num_files_processed, fi, walk, top, reads,
                   result, notRun>>

\* process_files, lines 270-289: the preamble and the global width.
BeginRender ==
    /\ pc = "begin"
    /\ output' = IF args.verbose
                 THEN build_verbose_output(args.truncate, unique_words, args.max_length,
                                           overrides, args.follow_symlinks,
                                           args.minify_python, exclusion_patterns)
                 ELSE <<>>
    /\ truncation_length' = IF args.truncate
                            THEN find_min_truncation_length(unique_words, args.max_length)
                            ELSE None
    /\ num_files_processed' = 0
    /\ fi' = 1
    /\ pc' = "render"
    /\ UNCHANGED <<args, patterns, exclusion_patterns, overrides, unique_words, walk, top,
                   reads, result, notRun>>

Rendering == pc = "render" /\ walk = <<>> /\ fi <= Len(patterns)

\* The sections of the files of paths, in order, and how many are not empty.
SectionOf(path) ==
    process_single_file(path, ReadFile(path), args.minify_python, args.truncate,
                        truncation_length, overrides)
SectionsOf(paths) == [i \in 1..Len(paths) |-> SectionOf(paths[i])]
Processed(paths) == Cardinality({i \in 1..Len(paths) : SectionOf(paths[i]) # <<>>})

\* process_files, lines 291-293.
RenderSkipEntry ==
    /\ Rendering
    /\ LET full_path == abspath(patterns[fi])
       IN  ~exists(full_path) \/ is_excluded(full_path, exclusion_patterns)
    /\ fi' = fi + 1
    /\ UNCHANGED <<pc, args, patterns, exclusion_patterns, overrides, unique_words,
                   truncation_length, output, num_files_processed, walk, top, reads,
                   result, notRun>>

\* process_files, lines 294-298.
RenderFileEntry ==
    /\ Rendering
    /\ LET full_path == abspath(patterns[fi])
       IN  /\ exists(full_path) /\ ~is_excluded(full_path, exclusion_patterns)
           /\ isfile(full_path)
           /\ output' = output \o Concat(SectionsOf(<<full_path>>))
           /\ num_files_processed' = num_files_processed + Processed(<<full_path>>)
           /\ reads' = reads \o ReadsOf("render", <<full_path>>, <<>>)
    /\ fi' = fi + 1
    /\ UNCHANGED <<pc, args, patterns, exclusion_patterns, overrides, unique_words,
                   truncation_length, walk, top, result, notRun>>

\* process_files, lines 299-300.
RenderDirEntry ==
    /\ Rendering
    /\ LET full_path == abspath(patterns[fi])
       IN  /\ exists(full_path) /\ ~is_excluded(full_path, exclusion_patterns)
           /\ isdir(full_path)
           /\ walk' = <<full_path>>
           /\ top' = full_path
    /\ UNCHANGED <<pc, args, patterns, exclusion_patterns, overrides, unique_words,
                   truncation_length, output, num_files_processed, fi, reads, result,
                   notRun>>

\* process_files, lines 300-308: one directory yielded by
\* os.walk(full_path, followlinks=follow_symlinks).
RenderWalk ==
    /\ pc = "render" /\ walk # <<>>
    /\ LET root == Head(walk)
           dirs == PrunedDirs(root, WalkDirs(root), exclusion_patterns)
           files == IncludedFiles(root, exclusion_patterns)
           rest == Descend(root, dirs, args.follow_symlinks) \o Tail(walk)
       IN  /\ output' = output \o Concat(SectionsOf(files))
           /\ num_files_processed' = num_files_processed + Processed(files)
           /\ reads' = reads \o ReadsOf("render", files, top)
           /\ walk' = rest
           /\ fi' = IF rest = <<>> THEN fi + 1 ELSE fi
           /\ top' = IF rest = <<>> THEN <<>> ELSE top
    /\ UNCHANGED <<pc, args, patterns, exclusion_patterns, overrides, unique_words,
                   truncation_length, result, notRun>>

\* process_files, lines 310-316: the summary, and the lines joined.
Finish ==
    /\ pc = "render" /\ walk = <<>> /\ fi > Len(patterns)
    /\ LET summary == IF args.verbose
                      THEN << <<"# Summary">>,
                              <<"- Number of files processed: ">> \o Decimal(num_files_processed),
                              <<>> >>
                      ELSE <<>>
       IN  /\ output' = output \o summary
           /\ result' = JoinLines(output \o summary)
    /\ pc' = "done"
    /\ UNCHANGED <<args, patterns, exclusion_patterns, overrides, unique_words,
                   truncation_length, num_files_processed, fi, walk, top, reads, notRun>>

RunNext ==
    \/ Expand \/ Configure \/ SkipScan
    \/ ScanSkipEntry \/ ScanFileEntry \/ ScanDirEntry \/ ScanWalk \/ ScanDone
    \/ BeginRender
    \/ RenderSkipEntry \/ RenderFileEntry \/ RenderDirEntry \/ RenderWalk
    \/ Finish

RunSpec == RunInit /\ [][RunNext]_vars

(***************************************************************************)
(* Claims about the solver.                                                *)
(***************************************************************************)
\* w[:X] as the claims mean it: the first X characters of w.
Prefix(w, X) == [i \in 1..Min(X, Len(w)) |-> w[i]]

\* No two distinct words of W have the same first-X-character prefix.
InjectiveAt(W, X) ==
    \A w1, w2 \in W : w1 # w2 => Prefix(w1, X) # Prefix(w2, X)

Longest(W) == CHOOSE n \in {Len(w) : w \in W} : \A w \in W : Len(w) <= n
UpperOf(W, maxlen) == Min(Longest(W), maxlen)

\* The reference result: the least injective width in [1, upper], if any.
Reference(W, maxlen) ==
    IF W = {} \/ \A X \in 1..UpperOf(W, maxlen) : ~InjectiveAt(W, X)
    THEN None
    ELSE Some(CHOOSE X \in 1..UpperOf(W, maxlen) :
                 /\ InjectiveAt(W, X)
                 /\ \A Z \in 1..(X - 1) : ~InjectiveAt(W, Z))

\* C1: a width X returned by find_min_truncation_length (not None) makes
\* w -> w[:X] injective over the words: no two distinct words share their
\* first-X-character prefix.
C1_ReturnedWidthInjective ==
    (pc = "solved" /\ solved # None) => InjectiveAt(words, solved[1])

\* C1 witness: a width was returned for several words, one of them cut by it.
C1_Witness ==
    /\ pc = "solved" /\ solved # None
    /\ Cardinality(words) >= 3
    /\ \E w \in words : Len(w) > solved[1]
    /\ solved[1] >= 2

\* C2: find_min_truncation_length returns the least width in [1, upper] at
\* which the truncated words are |W| distinct strings, and None exactly when
\* W is empty or every width in [1, upper] collides; for {cat, caterpillar,
\* dog, dogma} and max_length 80 it returns 4, widths 1, 2, 3 colliding.
C2_EqualsReference ==
    pc = "solved" =>
        /\ solved = Reference(words, max_length)
        /\ (solved = None) <=>
               (words = {} \/ \A X \in 1..UpperOf(words, max_length) :
                                  ~InjectiveAt(words, X))
        /\ (words = PetWords /\ max_length = DefaultMaxLength) =>
               /\ solved = Some(4)
               /\ \A X \in 1..3 : ~InjectiveAt(words, X)

\* C2 witness: the solver has answered 4 for the cat/caterpillar/dog/dogma corpus.
C2_Witness ==
    /\ pc = "solved" /\ words = PetWords /\ max_length = DefaultMaxLength
    /\ solved = Some(4)

\* The solver's own test of a width: the truncated words are |W| strings.
NoCollision(W, X) ==
    Cardinality({truncate_string(w, X) : w \in W}) = Cardinality(W)

\* C9 (as stated): uniqueness is not monotonic in the width: some word set W
\* (the solver's own words or any other set of the universe) and widths
\* X < Y within [1, longest word] have no collision at X and a collision at Y.
C9_NonMonotonicExists ==
    \E W \in WordSets \cup {words} : \E X, Y \in 1..MaxLenOf(W) :
        X < Y /\ NoCollision(W, X) /\ ~NoCollision(W, Y)

\* C9 (amended): uniqueness is monotonic in the width: for the words given to
\* the solver and widths X < Y within [1, longest word], no collision at X
\* implies no collision at Y.
C9_Monotonic ==
    \A X, Y \in 1..MaxLenOf(words) :
        (X < Y /\ NoCollision(words, X)) => NoCollision(words, Y)

\* C9 witness: the solver returned a width X > 1 (smaller widths collide) and
\* a larger width Y within the longest word is collision-free as well.
C9_Witness ==
    /\ pc = "solved" /\ solved # None /\ solved[1] > 1
    /\ \E Y \in 1..MaxLenOf(words) :
          solved[1] < Y /\ NoCollision(words, solved[1]) /\ NoCollision(words, Y)

(***************************************************************************)
(* Claims about the exclusion matcher.                                     *)
(***************************************************************************)
\* The glob pat matches the whole of the string s.
RECURSIVE GlobMatches(_, _)
GlobMatches(pat, s) ==
    IF pat = <<>> THEN s = <<>>
    ELSE IF Head(pat) = "*"
         THEN \E k \in 0..Len(s) : GlobMatches(Tail(pat), SubSeq(s, k + 1, Len(s)))
    ELSE /\ s # <<>>
         /\ Head(pat) = "?" \/ Head(pat) = Head(s)
         /\ GlobMatches(Tail(pat), Tail(s))

\* Some glob of the list matches some substring of the path.
MatchesSomeSubstring(globs, path) ==
    \E g \in 1..Len(globs) : \E i \in 1..(Len(path) + 1) : \E j \in (i - 1)..Len(path) :
        GlobMatches(globs[g], SubSeq(path, i, j))

\* C3: is_excluded has substring-anywhere semantics: it is true whenever some
\* exclusion glob matches some substring of the path, and with the single
\* pattern "build" it is true for /project/build/file.py and /a/build/b/c.txt.
C3_SubstringAnywhere ==
    pc = "checked" =>
        /\ MatchesSomeSubstring(xglobs, xpath) => xresult
        /\ (xglobs = <<Build>> /\ xpath \in {ProjectBuildFilePy, ABuildBCTxt})
               => xresult

(***************************************************************************)
(* Claims about truncate_content.                                          *)
(***************************************************************************)
\* The word tokens of s: its maximal runs of word characters, by position.
TokenSpans(s) ==
    {<<i, j>> \in (1..Len(s)) \X (1..Len(s)) :
        /\ i <= j
        /\ \A k \in i..j : IsWordChar(s[k])
        /\ i = 1 \/ ~IsWordChar(s[i - 1])
        /\ j = Len(s) \/ ~IsWordChar(s[j + 1])}

NotWordChar(ch) == ~IsWordChar(ch)
NonWordSeq(s) == SelectSeq(s, NotWordChar)

\* C6: truncate_content is idempotent at a fixed width X >= 1, every word
\* token of its result has at most X characters, and the result has the same
\* sequence of non-word characters as the content.
C6_TruncateIdempotent ==
    /\ pc = "truncated" => twice = once
    /\ pc \in {"again", "truncated"} =>
          /\ \A sp \in TokenSpans(once) : sp[2] - sp[1] + 1 <= width
          /\ NonWordSeq(once) = NonWordSeq(content)

\* C6 witness: a content of two tokens around a non-word character, one of
\* them cut, has been truncated twice.
C6_Witness ==
    /\ pc = "truncated"
    /\ once # content
    /\ Cardinality(TokenSpans(content)) >= 2
    /\ \E sp \in TokenSpans(content) : sp[2] - sp[1] + 1 <= width

(***************************************************************************)
(* Claims about copy_to_clipboard.                                         *)
(***************************************************************************)
\* The position of the first newline of a message: the end of its marker line.
MarkerEnd(msg) == CHOOSE k \in 1..Len(msg) : msg[k] = "\n" /\ \A m \in 1..(k - 1) : msg[m] # "\n"
MarkerLine(msg) == SubSeq(msg, 1, MarkerEnd(msg))
Body(msg) == SubSeq(msg, MarkerEnd(msg) + 1, Len(msg))

OfAt(line) == CHOOSE k \in 1..Len(line) : line[k] = OfPhrase
MarkerIndex(msg) == NumberOf(SubSeq(MarkerLine(msg), 2, OfAt(MarkerLine(msg)) - 1))
MarkerTotal(msg) ==
    NumberOf(SubSeq(MarkerLine(msg), OfAt(MarkerLine(msg)) + 1, Len(MarkerLine(msg)) - 2))
MarkerWording(msg) == MarkerLine(msg)[Len(MarkerLine(msg)) - 1]

CeilDiv(a, b) == (a + b - 1) \div b

\* C7: a non-empty text is cut into ceil(len/max_clip_length) contiguous
\* slices of at most max_clip_length characters (25 characters at 10 give
\* 10, 10, 5); slice i is sent behind one marker line stating i and the
\* total; only the last carries the "All sections have been provided"
\* wording, the earlier ones the "not to respond" wording; and the bodies in
\* order, marker lines removed, give back the text.
C7_Chunking ==
    LET total == CeilDiv(Len(text), max_clip_length)
    IN  (pc \in {"send", "clipped"} /\ platform \in SupportedPlatforms /\ text # <<>>) =>
            /\ \A i \in 1..Len(sent) :
                  /\ MarkerLine(sent[i])[1] = SectionPhrase
                  /\ MarkerIndex(sent[i]) = i
                  /\ MarkerTotal(sent[i]) = total
                  /\ MarkerWording(sent[i]) = IF i = total THEN FinalPhrase ELSE HoldPhrase
                  /\ Len(Body(sent[i])) <= max_clip_length
                  /\ Body(sent[i]) =
                        SubSeq(text, (i - 1) * max_clip_length + 1,
                               Min(i * max_clip_length, Len(text)))
            /\ (pc = "clipped" /\ ~failed) =>
                  /\ Len(sent) = total
                  /\ Concat([i \in 1..Len(sent) |-> Body(sent[i])]) = text
                  /\ (Len(text) = 25 /\ max_clip_length = 10) =>
                        [i \in 1..Len(sent) |-> Len(Body(sent[i]))] = <<10, 10, 5>>

\* C7 witness: the 25-character document has gone out in three sections.
C7_Witness ==
    /\ pc = "clipped" /\ ~failed
    /\ text = Doc25 /\ max_clip_length = 10
    /\ Len(sent) = 3

(***************************************************************************)
(* Claims about override resolution.                                       *)
(***************************************************************************)
\* The base name of a path: its last component.
BaseNameOf(path) ==
    LET starts == {k \in 1..(Len(path) + 1) :
                      /\ k = 1 \/ path[k - 1] = "/"
                      /\ \A m \in k..Len(path) : path[m] # "/"}
    IN  SubSeq(path, CHOOSE k \in starts : TRUE, Len(path))

\* The width of the first pair, in list order, whose pattern matches the base name.
FirstOverride(path, ovs) ==
    LET hits == {i \in 1..Len(ovs) : GlobMatches(ovs[i][1], BaseNameOf(path))}
    IN  IF hits = {} THEN None
        ELSE Some(ovs[CHOOSE i \in hits : \A j \in hits : i <= j][2])

\* The content the section is built from, before truncation.
Rendered(call) ==
    IF call.minify_python /\ Lower(splitext_ext(call.file_path)) = DotPy
    THEN minify_python_code(call.raw[1]) ELSE call.raw[1]

HasSection(call) == call.raw # None /\ strip(call.raw[1]) # <<>>

\* Every word token of s cut to its first X characters, the rest untouched.
RECURSIVE CutTokens(_, _)
CutTokens(s, X) ==
    IF s = <<>> THEN <<>>
    ELSE IF ~IsWordChar(Head(s)) THEN <<Head(s)>> \o CutTokens(Tail(s), X)
    ELSE LET n == CHOOSE k \in 1..Len(s) :
                      /\ \A m \in 1..k : IsWordChar(s[m])
                      /\ k = Len(s) \/ ~IsWordChar(s[k + 1])
         IN  SubSeq(s, 1, Min(n, X)) \o CutTokens(SubSeq(s, n + 1, Len(s)), X)

\* C5: with truncation requested, match_override gives the width of the first
\* pair whose pattern matches the file's base name (directories never match);
\* a matching override is the file's width whatever the global width, None
\* included; without one the global width applies, and with neither the file
\* is left untruncated.  Global 5 and *.py:3 render app.py's 'hello world'
\* as 'hel wor'.
C5_OverrideResolution ==
    (pc = "processed" /\ fcall.truncate) =>
        LET ov == FirstOverride(fcall.file_path, fcall.overrides)
            w == IF ov # None THEN ov ELSE fcall.truncation_length
        IN  /\ match_override(fcall.file_path, fcall.overrides) = ov
            /\ HasSection(fcall) =>
                  section[3] = rstrip(IF w = None THEN Rendered(fcall)
                                      ELSE CutTokens(Rendered(fcall), w[1]))
            /\ ( /\ BaseNameOf(fcall.file_path) = AppPy
                 /\ fcall.raw = Some(HelloWorld)
                 /\ fcall.truncation_length = Some(5)
                 /\ fcall.overrides = << <<StarPy, 3>> >> ) =>
                  section[3] = <<"h", "e", "l", " ", "w", "o", "r">>

\* C5 witness: app.py with 'hello world' rendered under global 5 and *.py:3.
C5_Witness ==
    /\ pc = "processed" /\ fcall.truncate
    /\ BaseNameOf(fcall.file_path) = AppPy
    /\ fcall.raw = Some(HelloWorld)
    /\ fcall.truncation_length = Some(5)
    /\ fcall.overrides = << <<StarPy, 3>> >>
    /\ section # <<>>

\* A second witness of C5's cases: an override applied although the global
\* width is None, the first of two matching pairs winning.
C5_OverrideWithoutGlobal ==
    /\ pc = "processed" /\ fcall.truncate /\ fcall.truncation_length = None
    /\ Len(fcall.overrides) = 2
    /\ \A i \in 1..2 : GlobMatches(fcall.overrides[i][1], BaseNameOf(fcall.file_path))
    /\ fcall.overrides[1][2] # fcall.overrides[2][2]
    /\ HasSection(fcall) /\ section[3] # rstrip(Rendered(fcall))

(***************************************************************************)
(* Claims about the two passes of a run.                                   *)
(***************************************************************************)
ReadsIn(pass) == {reads[i] : i \in {k \in 1..Len(reads) : reads[k].pass = pass}}

\* The directories on the way from top down to the file at path, top excluded.
DirsBelow(from, path) ==
    {SubSeq(path, 1, k - 1) : k \in {m \in (Len(from) + 2)..Len(path) : path[m] = "/"}}

SectionHeaders == {i \in 1..Len(output) : output[i] # <<>> /\ output[i][1] = "## "}

\* C4: in the word-scan pass and in the render pass, a subdirectory whose
\* joined path is excluded is pruned before the walk descends: no file
\* beneath it is read by that walk, whether or not the file's own path is
\* excluded; words come only from files the scan read and sections only from
\* files the render pass read.
C4_PrunedSubtreesUnread ==
    /\ \A i \in 1..Len(reads) :
          reads[i].top # <<>> =>
              \A d \in DirsBelow(reads[i].top, reads[i].path) :
                  ~is_excluded(d, exclusion_patterns)
    /\ unique_words = UNION {WordsOfFile(r.path) : r \in ReadsIn("scan")}
    /\ \A i \in SectionHeaders :
          \E r \in ReadsIn("render") : output[i] = <<"## ">> \o relpath(r.path)

\* C4 witness: a run with --truncate on the directory p has finished; both
\* passes walked p, whose subdirectory build is excluded while build/file.py
\* and build/sub/deep.txt are not.
C4_Witness ==
    /\ pc = "done" /\ args.truncate /\ args.files = <<NP>>
    /\ is_excluded(PBuild, exclusion_patterns)
    /\ ~is_excluded(PBuildFile, exclusion_patterns)
    /\ ~is_excluded(PBuildSubDeep, exclusion_patterns)
    /\ \E r \in ReadsIn("scan") : r.top = PDir /\ r.path = PDocsReadme
    /\ \E r \in ReadsIn("render") : r.top = PDir /\ r.path = PDocsReadme

\* C8: whatever the input patterns (a path given twice, a directory together
\* with a glob or a literal naming a file inside it), a file has at most one
\* section in the document and adds at most 1 to the processed-file count.
C8_AtMostOneSection ==
    pc = "done" =>
        /\ \A i, j \in SectionHeaders : output[i] = output[j] => i = j
        /\ num_files_processed <= Cardinality({output[i] : i \in SectionHeaders})

\* The files rendered at the global width: no override matches them.
GloballyTruncated ==
    {r \in ReadsIn("render") :
        truncation_length # None /\ match_override(r.path, overrides) = None}

\* C10: with truncation on, whatever follow_symlinks is, the files the render
\* pass reads are among the files the word-scan pass read; so every word
\* token of a file rendered at the global width is in the corpus word set,
\* and the global width maps no two distinct tokens of such files to the
\* same string.
C10_RenderWithinScan ==
    (pc \in {"render", "done"} /\ args.truncate) =>
        LET tokens == UNION {WordsOfFile(r.path) : r \in GloballyTruncated}
        IN  /\ {realpath(r.path) : r \in ReadsIn("render")}
                  \subseteq {realpath(r.path) : r \in ReadsIn("scan")}
            /\ tokens \subseteq unique_words
            /\ \A t1, t2 \in tokens :
                  t1 # t2 => Prefix(t1, truncation_length[1]) # Prefix(t2, truncation_length[1])

\* C10 with follow_symlinks off, where the two passes walk alike.
C10_WithoutSymlinks == ~args.follow_symlinks => C10_RenderWithinScan

(***************************************************************************)
(* Claims about overrides in a run without truncation.                     *)
(***************************************************************************)
\* The content of the file at path as the run renders it before any
\* truncation: minified when asked and a Python file, else as read.
Untruncated(path) ==
    Rendered([file_path |-> path, minify_python |-> args.minify_python,
              raw |-> ReadFile(path)])

\* The paths the render pass read that yield a section, in reading order.
RenderedPaths ==
    SelectSeq([i \in 1..Len(reads) |-> reads[i]],
              LAMBDA r : /\ r.pass = "render"
                         /\ HasSection([raw |-> ReadFile(r.path)]))

\* The five lines of the k-th section of the document: the sections follow
\* one another from the first header on (after the verbose header, if any).
FirstHeader == CHOOSE i \in SectionHeaders : \A j \in SectionHeaders : i <= j
SectionLines(k) == SubSeq(output, FirstHeader + 5 * (k - 1), FirstHeader + 5 * k - 1)

\* C11: in a run with truncate off the overrides have no effect: no word
\* scan is made and no global width is solved, and in the finished document
\* the content of every rendered file is what was read (minified if asked),
\* only right-stripped,
\* also when a well-formed override pattern matches the file's base name
\* (as with --override-max-length "*.py:3" given without --truncate).
C11_OverridesNeedTruncate ==
    (pc \in {"render", "done"} /\ ~args.truncate) =>
        /\ unique_words = {} /\ truncation_length = None
        /\ \A i \in 1..Len(reads) : reads[i].pass = "render"
        /\ pc = "done" =>
              LET paths == RenderedPaths
              IN  /\ SectionHeaders = {FirstHeader + 5 * (k - 1) : k \in 1..Len(paths)}
                  /\ \A k \in 1..Len(paths) :
                        /\ SectionLines(k)[1] = <<"## ">> \o relpath(paths[k].path)
                        /\ SectionLines(k)[3] = rstrip(Untruncated(paths[k].path))

\* C11 witness: a run without --truncate and with the parsed override
\* *.py:3 has finished and rendered app.py, whose base name the override
\* matches and whose content a cut at 3 would have changed.
C11_Witness ==
    /\ pc = "done" /\ ~args.truncate
    /\ overrides = << <<StarPy, 3>> >>
    /\ \E k \in 1..Len(RenderedPaths) :
          LET path == RenderedPaths[k].path
          IN  /\ path = PApp
              /\ match_override(path, overrides) = Some(3)
              /\ CutTokens(Untruncated(path), 3) # Untruncated(path)
              /\ SectionLines(k)[3] = rstrip(Untruncated(path))

=============================================================================
